---------------------------- MODULE Spec2Model ----------------------------
(***************************************************************************)
(* The SiK UART bootloader (Firmware/bootloader/bootloader.c) as a state   *)
(* machine.  One step of the model is one blocking cin() of the code       *)
(* together with everything the code does up to its next cin(): the        *)
(* program counter pc names the cin() the loop is blocked in.              *)
(*                                                                         *)
(* Bytes are 0..255 and the address cursor is 0..65535, as in the code.    *)
(* The bytes the serial link delivers are drawn from small sets that hold  *)
(* every class of value the code tells apart at that cin().                *)
(***************************************************************************)
EXTENDS Integers, Sequences, FiniteSets, TLC

(***************************************************************************)
(* Protocol constants (bootloader.h) and board constants (board.h,         *)
(* board_info.h, flash.h).  The headers are not among the sources; the     *)
(* values are distinct bytes, as the protocol requires.                    *)
(* PROTO_PROG_MULTI_MAX is the capacity of buf; it is kept small here so   *)
(* that a full buffer is reached: the code compares the count byte with    *)
(* it and nothing else depends on its value.                               *)
(***************************************************************************)
PROTO_OK == 16
PROTO_INSYNC == 18
PROTO_EOC == 32
PROTO_GET_SYNC == 33
PROTO_GET_DEVICE == 34
PROTO_CHIP_ERASE == 35
PROTO_LOAD_ADDRESS == 36
PROTO_PROG_FLASH == 37
PROTO_READ_FLASH == 38
PROTO_PROG_MULTI == 39
PROTO_READ_MULTI == 40
PROTO_PARAM_ERASE == 41
PROTO_REBOOT == 48
PROTO_PROG_MULTI_MAX == 2
BOARD_ID == 78
board_frequency == 240
BL_VERSION == 1
FLASH_APP_START == 1024
FLASH_SCRATCH == 62464
FLASH_INFO_PAGE == 63488
ERASED == 255

(***************************************************************************)
(* Bounds of the model.                                                    *)
(***************************************************************************)
\* the number of opcode bytes the host sends (frames the engine starts)
MaxFrames == 3
\* the same, for a host that only loads the address, programs and reads back
RtFrames == 4
SyncFrames == 1

(***************************************************************************)
(* The bytes the link delivers, per cin().                                 *)
(***************************************************************************)
Opcodes ==
    { PROTO_GET_SYNC, PROTO_GET_DEVICE, PROTO_CHIP_ERASE, PROTO_PARAM_ERASE,
      PROTO_READ_FLASH, PROTO_LOAD_ADDRESS, PROTO_PROG_FLASH,
      PROTO_PROG_MULTI, PROTO_READ_MULTI, PROTO_REBOOT }

\* the opcodes whose terminator is checked by the common test (line 124-132)
CommonEOC ==
    { PROTO_GET_SYNC, PROTO_GET_DEVICE, PROTO_CHIP_ERASE, PROTO_PARAM_ERASE,
      PROTO_READ_FLASH }

\* at the wait for a command: every opcode, the terminator value, one other
OpBytes == Opcodes \cup { PROTO_EOC, 0 }
\* where a terminator is expected: the terminator, and a byte that is not
EocBytes == { PROTO_EOC, 0 }
\* address bytes: lo and hi differ in value so that their order shows
AddrBytes == { 0, 255 }
\* data bytes, the terminator value among them
DataBytes == { PROTO_EOC, 90 }
\* count bytes: none, one, a full buffer, one more than the buffer holds
CountBytes == { 0, 1, PROTO_PROG_MULTI_MAX, PROTO_PROG_MULTI_MAX + 1 }

\* (a cursor that stops at 0xFFFF instead of wrapping)
Add16Saturate(a, n) == IF a + n > 65535 THEN 65535 ELSE a + n
Add16(a, n) == (a + n) % 65536

(***************************************************************************)
(* The flash driver (flash.c, not among the sources), as the interface the *)
(* bootloader uses: byte read, byte program, erase of the application      *)
(* region, erase of the scratch region.  A flash is the image it held at   *)
(* power-up, the regions erased since, and the bytes programmed since      *)
(* (ov, a function on the addresses that differ from what lies under).     *)
(***************************************************************************)
InApp(a) == a >= FLASH_APP_START /\ a < FLASH_SCRATCH
InScratch(a) == a >= FLASH_SCRATCH /\ a < FLASH_INFO_PAGE

\* the image in flash at power-up: some content that differs between cells
FlashImage(a) == (3 * (a \div 256) + a) % 256

FlashUnder(f, a) ==
    IF (InApp(a) /\ f.appErased) \/ (InScratch(a) /\ f.scrErased)
    THEN ERASED
    ELSE FlashImage(a)

flash_read_byte(f, a) ==
    IF a \in DOMAIN f.ov THEN f.ov[a] ELSE FlashUnder(f, a)

flash_write_byte(f, a, v) ==
    LET D == IF v = FlashUnder(f, a)
             THEN DOMAIN f.ov \ {a}
             ELSE DOMAIN f.ov \cup {a}
    IN  [f EXCEPT !.ov = [x \in D |-> IF x = a THEN v ELSE f.ov[x]]]

flash_erase_app(f) ==
    [f EXCEPT !.appErased = TRUE,
              !.ov = [x \in {y \in DOMAIN f.ov : ~InApp(y)} |-> f.ov[x]]]

flash_erase_scratch(f) ==
    [f EXCEPT !.scrErased = TRUE,
              !.ov = [x \in {y \in DOMAIN f.ov : ~InScratch(y)} |-> f.ov[x]]]

EmptyFn == [x \in {} |-> 0]

VARIABLES
    pc,        \* where bootloader() is: "boot", "app", "reset", or the cin()
    c,         \* uint8_t c
    address,   \* uint16_t address
    count,     \* uint8_t count
    i,         \* uint8_t i
    val,       \* uint16_t val of get_uint16()
    buf,       \* uint8_t buf[PROTO_PROG_MULTI_MAX]
    flash,     \* the flash, behind the driver
    rstsrc,    \* RSTSRC: bit 6 (flash error) and bit 4 (software reset)
    button,    \* BUTTON_BOOTLOAD = BUTTON_ACTIVE
    led,       \* LED_BOOTLOADER
    regs,      \* BOARD_FREQUENCY_REG and BOARD_BL_VERSION_REG
    out,       \* history: the bytes sent by cout() since the last opcode
    log,       \* history: the flash driver calls since the last opcode
    fr,        \* history: the frame being read, or read last
    budget,    \* the host: the opcode bytes it will still send
    ov,        \* history: what follows a PROG_MULTI refused for its count
    rt,        \* history: a LOAD_ADDRESS, PROG_MULTI, LOAD_ADDRESS sequence
    gs,        \* history: the run of well framed GET_SYNC frames under way
    gate,      \* history: the boot decisions since the reset, and their input
    host       \* the host: what it sends, and where it began to resynchronise

vars ==
    << pc, c, address, count, i, val, buf, flash, rstsrc, button, led, regs,
       out, log, fr, budget, ov, rt, gs, gate, host >>

prog == << c, address, count, i, val, buf >>
hw == << rstsrc, button, regs >>

(***************************************************************************)
(* Helpers of bootloader().                                                *)
(***************************************************************************)
\* x | y on 16-bit values, bit by bit
RECURSIVE BitOr(_, _, _)
BitOr(x, y, bits) ==
    IF bits = 0
    THEN 0
    ELSE (IF x % 2 = 1 \/ y % 2 = 1 THEN 1 ELSE 0)
         + 2 * BitOr(x \div 2, y \div 2, bits - 1)

\* (the two bytes taken in big-endian order)
get_uint16BigEndian(first, second) ==
    BitOr(second, (first * 256) % 65536, 16)
\* get_uint16(): val = cin(); val |= (uint16_t)cin() << 8
get_uint16(first, second) == BitOr(first, (second * 256) % 65536, 16)

\* (the acknowledgement with its two bytes in the other order)
sync_responseSwapped(sent) == sent \o << PROTO_OK, PROTO_INSYNC >>
\* sync_response(): cout(PROTO_INSYNC); cout(PROTO_OK), after what was sent
sync_response(sent) == sent \o << PROTO_INSYNC, PROTO_OK >>

\* the five tests "cin() != PROTO_EOC" (lines 130, 154, 160, 176, 184),
\* each as the condition under which the command goes on
\* (a common test that lets every byte pass)
EocCommonAny(b) == TRUE
EocCommon(b) == ~(b # PROTO_EOC)
EocLoadAddress(b) == ~(b # PROTO_EOC)
\* (a PROG_FLASH that programs whatever byte ends the frame)
EocProgFlashAny(b) == TRUE
EocProgFlash(b) == ~(b # PROTO_EOC)
\* (a PROG_MULTI that programs whatever byte ends the frame)
EocProgMultiAny(b) == TRUE
EocProgMulti(b) == ~(b # PROTO_EOC)
EocReadMulti(b) == ~(b # PROTO_EOC)

\* the test "count > sizeof(buf)" failing, i.e. the count fits the buffer
BufFits(cnt) == ~(cnt > PROTO_PROG_MULTI_MAX)

\* (a byte that is no command taken into the common terminator test)
CmdPcDefaultEoc(b) ==
    CASE b = PROTO_LOAD_ADDRESS -> "la_lo"
      [] b = PROTO_PROG_FLASH -> "pf_data"
      [] b = PROTO_PROG_MULTI -> "pm_count"
      [] b = PROTO_READ_MULTI -> "rm_count"
      [] b = PROTO_REBOOT -> "reset"
      [] OTHER -> "eoc"
\* where the two switches on the command byte leave the loop blocked
CmdPc(b) ==
    CASE b \in CommonEOC -> "eoc"
      [] b = PROTO_LOAD_ADDRESS -> "la_lo"
      [] b = PROTO_PROG_FLASH -> "pf_data"
      [] b = PROTO_PROG_MULTI -> "pm_count"
      [] b = PROTO_READ_MULTI -> "rm_count"
      [] b = PROTO_REBOOT -> "reset"
      [] OTHER -> "wait"

Call(op, a, v) == [op |-> op, a |-> a, v |-> v]

\* (GET_DEVICE sending the frequency before the board id)
HandlerOutFrequencyFirst(cmd, rd) ==
    CASE cmd = PROTO_GET_DEVICE -> << board_frequency, BOARD_ID >>
      [] cmd = PROTO_READ_FLASH -> << rd >>
      [] OTHER -> << >>
\* (GET_SYNC without its break, falling into the GET_DEVICE handler)
HandlerOutSyncFallsThrough(cmd, rd) ==
    CASE cmd \in {PROTO_GET_SYNC, PROTO_GET_DEVICE} ->
            << BOARD_ID, board_frequency >>
      [] cmd = PROTO_READ_FLASH -> << rd >>
      [] OTHER -> << >>
\* what the handlers behind the common test send before the acknowledgement:
\* cout(BOARD_ID); cout(board_frequency) (140-141), cout(c) (167)
HandlerOut(cmd, rd) ==
    CASE cmd = PROTO_GET_DEVICE -> << BOARD_ID, board_frequency >>
      [] cmd = PROTO_READ_FLASH -> << rd >>
      [] OTHER -> << >>

\* (the two erase handlers calling each other's driver function)
HandlerEraseSwapped(cmd, f) ==
    CASE cmd = PROTO_CHIP_ERASE ->
            [flash |-> flash_erase_scratch(f), log |-> << Call("es", 0, 0) >>]
      [] cmd = PROTO_PARAM_ERASE ->
            [flash |-> flash_erase_app(f), log |-> << Call("ea", 0, 0) >>]
      [] OTHER -> [flash |-> f, log |-> << >>]
\* flash_erase_app() (145), flash_erase_scratch() (149)
HandlerErase(cmd, f) ==
    CASE cmd = PROTO_CHIP_ERASE ->
            [flash |-> flash_erase_app(f), log |-> << Call("ea", 0, 0) >>]
      [] cmd = PROTO_PARAM_ERASE ->
            [flash |-> flash_erase_scratch(f), log |-> << Call("es", 0, 0) >>]
      [] OTHER -> [flash |-> f, log |-> << >>]

RECURSIVE ProgLoopShort(_, _, _, _, _, _)
\* (the loop stopping one byte short)
ProgLoopShort(f, addr, k, cnt, bf, lg) ==
    IF k + 1 < cnt
    THEN ProgLoopShort(flash_write_byte(f, addr, bf[k]), Add16(addr, 1),
                       k + 1, cnt, bf, Append(lg, Call("w", addr, bf[k])))
    ELSE [flash |-> f, address |-> addr, i |-> k, log |-> lg]

RECURSIVE ProgLoopStuck(_, _, _, _, _, _)
\* (the loop without address++: every byte is programmed into the same cell)
ProgLoopStuck(f, addr, k, cnt, bf, lg) ==
    IF k < cnt
    THEN ProgLoopStuck(flash_write_byte(f, addr, bf[k]), addr, k + 1, cnt,
                       bf, Append(lg, Call("w", addr, bf[k])))
    ELSE [flash |-> f, address |-> Add16(addr, cnt), i |-> k, log |-> lg]

RECURSIVE ProgLoop(_, _, _, _, _, _)
\* for (i = 0; i < count; i++) flash_write_byte(address++, buf[i]);
ProgLoop(f, addr, k, cnt, bf, lg) ==
    IF k < cnt
    THEN ProgLoop(flash_write_byte(f, addr, bf[k]), Add16(addr, 1), k + 1,
                  cnt, bf, Append(lg, Call("w", addr, bf[k])))
    ELSE [flash |-> f, address |-> addr, i |-> k, log |-> lg]

\* (the loop without address++: every pass reads the same cell)
ReadLoopStuck(f, addr, cnt, ch, sent, lg) ==
    LET v == flash_read_byte(f, addr)
    IN  [address |-> addr,
         i |-> cnt,
         c |-> IF cnt = 0 THEN ch ELSE v,
         out |-> sent \o [k \in 1 .. cnt |-> v],
         log |-> lg \o [k \in 1 .. cnt |-> Call("r", addr, v)]]
\* for (i = 0; i < count; i++) { c = flash_read_byte(address++); cout(c); }
\* The loop leaves the flash alone, so its k-th pass (k = 1..count) reads
\* the cell k - 1 cells after the cursor it started with.
ReadLoop(f, addr, cnt, ch, sent, lg) ==
    LET cell(k) == Add16(addr, k - 1)
        got == [k \in 1 .. cnt |-> flash_read_byte(f, cell(k))]
    IN  [address |-> Add16(addr, cnt),
         i |-> cnt,
         c |-> IF cnt = 0 THEN ch ELSE got[cnt],
         out |-> sent \o got,
         log |-> lg \o [k \in 1 .. cnt |-> Call("r", cell(k), got[k])]]

(***************************************************************************)
(* History variables.                                                      *)
(***************************************************************************)
NoFrame == [op |-> -1, A |-> 0, F |-> 0, args |-> << >>, res |-> "none"]
NoOv == [st |-> "none", left |-> 0, touched |-> FALSE, acked |-> FALSE]
NoRt == [st |-> 0, A |-> 0, data |-> << >>]

\* fr: the opcode byte, the cursor and the flash when it was read, the bytes
\* read after it, and how the code left the command ("ok": by cmd_ok)
Arg(b) == [fr EXCEPT !.args = Append(@, b)]
End(b, res) == [fr EXCEPT !.args = Append(@, b), !.res = res]

\* The place of the terminator among the bytes that follow the opcode, by
\* the frame format: the count byte of PROG_MULTI says how many data bytes
\* come before it.  0: no terminator (not a command, or REBOOT).
TermIdx(op, args) ==
    CASE op \in CommonEOC -> 1
      [] op = PROTO_LOAD_ADDRESS -> 3
      [] op = PROTO_PROG_FLASH -> 2
      [] op = PROTO_READ_MULTI -> 2
      [] op = PROTO_PROG_MULTI -> IF args = << >> THEN 0 ELSE args[1] + 2
      [] OTHER -> 0

\* the bytes after the opcode are a whole frame with its terminator
WellFramed(op, args) ==
    /\ TermIdx(op, args) > 0
    /\ Len(args) = TermIdx(op, args)
    /\ args[Len(args)] = PROTO_EOC

\* one more byte of the frame the host sent with a count that did not fit
OvNext(o, touched, acked) ==
    IF o.st = "feeding"
    THEN [st |-> IF o.left = 1 THEN "fed" ELSE "feeding",
          left |-> o.left - 1,
          touched |-> o.touched \/ touched,
          acked |-> o.acked \/ acked]
    ELSE NoOv

\* a count byte: one that does not fit starts the watch over the count data
\* bytes and the terminator the host sends after it
OvCount(o, cnt) ==
    IF o.st # "feeding" /\ cnt > PROTO_PROG_MULTI_MAX
    THEN [st |-> "feeding", left |-> cnt + 1, touched |-> FALSE,
          acked |-> FALSE]
    ELSE OvNext(o, FALSE, FALSE)

\* rt, at the end of a command, from the bytes received alone: the well
\* framed commands LOAD_ADDRESS(A), PROG_MULTI(data), LOAD_ADDRESS(A),
\* READ_MULTI(Len(data)) one right after the other (st 1, 2, 3, 4), and
\* LOAD_ADDRESS(A), READ_FLASH (st 5)
RtNext(r, op, args) ==
    LET ok == WellFramed(op, args)
    IN  CASE ok /\ op = PROTO_LOAD_ADDRESS ->
                LET a == args[1] + 256 * args[2]
                IN  IF r.st = 2 /\ a = r.A
                    THEN [r EXCEPT !.st = 3]
                    ELSE [st |-> 1, A |-> a, data |-> << >>]
          [] ok /\ op = PROTO_PROG_MULTI /\ r.st = 1 ->
                [r EXCEPT !.st = 2, !.data = SubSeq(args, 2, Len(args) - 1)]
          [] ok /\ op = PROTO_READ_MULTI /\ r.st = 3
                /\ args[1] = Len(r.data) ->
                [r EXCEPT !.st = 4]
          [] ok /\ op = PROTO_READ_FLASH /\ r.st \in {1, 3} ->
                [st |-> 5, A |-> r.A, data |-> << >>]
          [] OTHER -> NoRt

\* gs: n well framed GET_SYNC frames were received one right after the other
\* (n = 2 stands for two or more), the first when the cursor was A and the
\* flash F
NoGs == [n |-> 0, A |-> 0, F |-> 0]
\* an opcode byte: GET_SYNC starts or goes on with a run, any other ends it
GsOpcode(g, b, a, f) ==
    CASE b # PROTO_GET_SYNC -> NoGs
      [] g.n = 0 -> [n |-> 0, A |-> a, F |-> f]
      [] OTHER -> g
\* the byte after the opcode byte op
GsTerminator(g, op, b) ==
    CASE op # PROTO_GET_SYNC -> g
      [] b = PROTO_EOC -> [g EXCEPT !.n = IF g.n < 2 THEN g.n + 1 ELSE 2]
      [] OTHER -> NoGs

\* gate: how many times the boot decision was taken since the reset, and
\* what flash_app_valid() answered
NoGate == [n |-> 0, valid |-> FALSE]

\* host: in mode "any" it sends what it likes; from the state from on it
\* sends GET_SYNC, END_OF_COMMAND, GET_SYNC, ... (mode "sync": GET_SYNC is
\* next, mode "eoc": END_OF_COMMAND is next)
\* sent: the bytes sent since then, 2 standing for two or more
AnyHost == [mode |-> "any", from |-> "none", sent |-> 0]
HostNext(h) ==
    LET n == IF h.sent < 2 THEN h.sent + 1 ELSE 2
    IN  CASE h.mode = "sync" -> [h EXCEPT !.mode = "eoc", !.sent = n]
          [] h.mode = "eoc" -> [h EXCEPT !.mode = "sync", !.sent = n]
          [] OTHER -> h
\* the bytes the host may send where the bootloader reads one of S
HostBytes(S) ==
    CASE host.mode = "sync" -> { PROTO_GET_SYNC }
      [] host.mode = "eoc" -> { PROTO_EOC }
      [] OTHER -> S

(***************************************************************************)
(* Init: bootloader() has run hardware_init() and lit the LED (line 87).   *)
(***************************************************************************)
Booted(frames) ==
    /\ pc = "boot"
    /\ c = 0
    /\ address = 0
    /\ count = 0
    /\ i = 0
    /\ val = 0
    /\ buf = [k \in 0 .. PROTO_PROG_MULTI_MAX - 1 |-> 0]
    /\ flash = [appErased |-> FALSE, scrErased |-> FALSE, ov |-> EmptyFn]
    /\ rstsrc \in [ferror : BOOLEAN, swrsf : {FALSE}]
    /\ button \in BOOLEAN
    /\ led = TRUE
    /\ regs = [freq |-> 0, ver |-> 0]
    /\ out = << >>
    /\ log = << >>
    /\ fr = NoFrame
    /\ budget = frames
    /\ ov = NoOv
    /\ rt = NoRt
    /\ gs = NoGs
    /\ gate = NoGate
    /\ host = AnyHost

Init == Booted(MaxFrames)

\* (the command loop entered without address = 0)
BootGateKeepsCursor(valid) ==
    /\ pc = "boot"
    /\ IF ~rstsrc.ferror /\ valid /\ ~button
       THEN /\ regs' = [freq |-> board_frequency, ver |-> BL_VERSION]
            /\ pc' = "app"
       ELSE /\ pc' = "wait"
            /\ UNCHANGED regs
    /\ led' = TRUE
    /\ gate' = [n |-> gate.n + 1, valid |-> valid]
    /\ UNCHANGED << c, address, count, i, val, buf, flash, rstsrc, button, out,
                    log, fr, budget, ov, rt, gs, host >>

\* (the two registers written before the decision, on both of its branches)
BootGateStashesFirst(valid) ==
    /\ pc = "boot"
    /\ regs' = [freq |-> board_frequency, ver |-> BL_VERSION]
    /\ IF ~rstsrc.ferror /\ valid /\ ~button
       THEN /\ pc' = "app"
            /\ UNCHANGED address
       ELSE /\ address' = 0
            /\ pc' = "wait"
    /\ led' = TRUE
    /\ gate' = [n |-> gate.n + 1, valid |-> valid]
    /\ UNCHANGED << c, count, i, val, buf, flash, rstsrc, button, out, log, fr,
                    budget, ov, rt, gs, host >>

\* (the boot decision without the test of the button)
BootGateIgnoresButton(valid) ==
    /\ pc = "boot"
    /\ IF ~rstsrc.ferror /\ valid
       THEN /\ regs' = [freq |-> board_frequency, ver |-> BL_VERSION]
            /\ pc' = "app"
            /\ UNCHANGED address
       ELSE /\ address' = 0
            /\ pc' = "wait"
            /\ UNCHANGED regs
    /\ led' = TRUE
    /\ gate' = [n |-> gate.n + 1, valid |-> valid]
    /\ UNCHANGED << c, count, i, val, buf, flash, rstsrc, button, out, log, fr,
                    budget, ov, rt, gs, host >>

(***************************************************************************)
(* Lines 98-115: boot the application, or enter the loop with address 0.   *)
(* valid is what flash_app_valid() answers.                                *)
(***************************************************************************)
BootGate(valid) ==
    /\ pc = "boot"
    /\ IF ~rstsrc.ferror /\ valid /\ ~button
       THEN /\ regs' = [freq |-> board_frequency, ver |-> BL_VERSION]
            /\ pc' = "app"
            /\ UNCHANGED address
       ELSE /\ address' = 0
            /\ pc' = "wait"
            /\ UNCHANGED regs
    /\ led' = TRUE
    /\ gate' = [n |-> gate.n + 1, valid |-> valid]
    /\ UNCHANGED << c, count, i, val, buf, flash, rstsrc, button, out, log, fr,
                    budget, ov, rt, gs, host >>

(***************************************************************************)
(* The software reset REBOOT asks for: bootloader() is entered again.      *)
(***************************************************************************)
Reset(strap) ==
    /\ pc = "reset"
    /\ pc' = "boot"
    /\ rstsrc' = [ferror |-> FALSE, swrsf |-> TRUE]
    /\ button' = strap
    /\ led' = TRUE
    /\ gate' = NoGate
    /\ UNCHANGED << prog, flash, regs, out, log, fr, budget, ov, rt, gs, host >>

(***************************************************************************)
(* Line 120: c = cin(), then the two switches up to the next cin().        *)
(***************************************************************************)
GetCommand(b) ==
    /\ pc = "wait"
    /\ host.mode # "any" \/ budget > 0
    /\ c' = b
    /\ pc' = CmdPc(b)
    /\ led' = (pc' = "wait")
    /\ rstsrc' = IF b = PROTO_REBOOT
                 THEN [rstsrc EXCEPT !.swrsf = TRUE]
                 ELSE rstsrc
    /\ out' = << >>
    /\ log' = << >>
    /\ fr' = [op |-> b, A |-> address, F |-> flash, args |-> << >>,
              res |-> CASE pc' = "wait" -> "bad"
                        [] pc' = "reset" -> "reboot"
                        [] OTHER -> "run"]
    /\ budget' = IF host.mode = "any" THEN budget - 1 ELSE budget
    /\ gs' = GsOpcode(gs, b, address, flash)
    /\ host' = HostNext(host)
    /\ ov' = OvNext(ov, FALSE, FALSE)
    /\ rt' = IF pc' \in {"wait", "reset"} \/ rt.st \in {4, 5} THEN NoRt ELSE rt
    /\ UNCHANGED << address, count, i, val, buf, flash, button, regs, gate >>

(***************************************************************************)
(* Line 130: the common terminator test, then the handler of c and the     *)
(* acknowledgement (lines 136-150, 165-168, 199-201).                      *)
(***************************************************************************)
CommonEocCheck(b) ==
    /\ pc = "eoc"
    /\ host' = HostNext(host)
    /\ pc' = "wait"
    /\ led' = TRUE
    /\ IF ~EocCommon(b)
       THEN /\ UNCHANGED << c, address, flash, out, log >>
            /\ fr' = End(b, "bad")
            /\ ov' = OvNext(ov, FALSE, FALSE)
       ELSE /\ c' = IF c = PROTO_READ_FLASH
                    THEN flash_read_byte(flash, address)
                    ELSE c
            /\ address' = IF c = PROTO_READ_FLASH
                          THEN Add16(address, 1)
                          ELSE address
            /\ flash' = HandlerErase(c, flash).flash
            /\ log' = IF c = PROTO_READ_FLASH
                      THEN << Call("r", address, c') >>
                      ELSE HandlerErase(c, flash).log
            /\ out' = sync_response(HandlerOut(c, c'))
            /\ fr' = End(b, "ok")
            /\ ov' = OvNext(ov, c \in {PROTO_CHIP_ERASE, PROTO_PARAM_ERASE},
                            TRUE)
    /\ rt' = RtNext(rt, fr.op, fr'.args)
    /\ gs' = GsTerminator(gs, fr.op, b)
    /\ UNCHANGED << count, i, val, buf, hw, gate, budget >>

(***************************************************************************)
(* Lines 152-156: LOAD_ADDRESS.  get_uint16() reads two bytes (219, 220),  *)
(* address is assigned, and then the terminator is read and tested.        *)
(***************************************************************************)
LoadAddressLo(b) ==
    /\ pc = "la_lo"
    /\ host' = HostNext(host)
    /\ val' = b
    /\ pc' = "la_hi"
    /\ fr' = Arg(b)
    /\ ov' = OvNext(ov, FALSE, FALSE)
    /\ UNCHANGED << c, address, count, i, buf, flash, hw, gate, gs, led, out, log,
                    budget, rt >>

LoadAddressHi(b) ==
    /\ pc = "la_hi"
    /\ host' = HostNext(host)
    /\ val' = get_uint16(val, b)
    /\ address' = val'
    /\ pc' = "la_eoc"
    /\ fr' = Arg(b)
    /\ ov' = OvNext(ov, FALSE, FALSE)
    /\ UNCHANGED << c, count, i, buf, flash, hw, gate, gs, led, out, log, budget, rt >>

LoadAddressEoc(b) ==
    /\ pc = "la_eoc"
    /\ host' = HostNext(host)
    /\ pc' = "wait"
    /\ led' = TRUE
    /\ IF ~EocLoadAddress(b)
       THEN /\ UNCHANGED out
            /\ fr' = End(b, "bad")
            /\ ov' = OvNext(ov, FALSE, FALSE)
       ELSE /\ out' = sync_response(<< >>)
            /\ fr' = End(b, "ok")
            /\ ov' = OvNext(ov, FALSE, TRUE)
    /\ rt' = RtNext(rt, fr.op, fr'.args)
    /\ UNCHANGED << prog, flash, hw, gate, gs, log, budget >>

(***************************************************************************)
(* Lines 158-163: PROG_FLASH.                                              *)
(***************************************************************************)
ProgFlashData(b) ==
    /\ pc = "pf_data"
    /\ host' = HostNext(host)
    /\ c' = b
    /\ pc' = "pf_eoc"
    /\ fr' = Arg(b)
    /\ ov' = OvNext(ov, FALSE, FALSE)
    /\ UNCHANGED << address, count, i, val, buf, flash, hw, gate, gs, led, out, log,
                    budget, rt >>

ProgFlashEoc(b) ==
    /\ pc = "pf_eoc"
    /\ host' = HostNext(host)
    /\ pc' = "wait"
    /\ led' = TRUE
    /\ IF ~EocProgFlash(b)
       THEN /\ UNCHANGED << address, flash, out, log >>
            /\ fr' = End(b, "bad")
            /\ ov' = OvNext(ov, FALSE, FALSE)
       ELSE /\ flash' = flash_write_byte(flash, address, c)
            /\ address' = Add16(address, 1)
            /\ log' = << Call("w", address, c) >>
            /\ out' = sync_response(<< >>)
            /\ fr' = End(b, "ok")
            /\ ov' = OvNext(ov, TRUE, TRUE)
    /\ rt' = RtNext(rt, fr.op, fr'.args)
    /\ UNCHANGED << c, count, i, val, buf, hw, gate, gs, budget >>

(***************************************************************************)
(* Lines 170-180: PROG_MULTI.                                              *)
(***************************************************************************)
ProgMultiCount(b) ==
    /\ pc = "pm_count"
    /\ host' = HostNext(host)
    /\ count' = b
    /\ IF ~BufFits(b)
       THEN /\ pc' = "wait"
            /\ UNCHANGED i
            /\ fr' = End(b, "bad")
            /\ rt' = NoRt
       ELSE /\ i' = 0
            /\ pc' = IF 0 < b THEN "pm_data" ELSE "pm_eoc"
            /\ fr' = Arg(b)
            /\ UNCHANGED rt
    /\ led' = (pc' = "wait")
    /\ ov' = OvCount(ov, b)
    /\ UNCHANGED << c, address, val, buf, flash, hw, gate, gs, out, log, budget >>

ProgMultiData(b) ==
    /\ pc = "pm_data"
    /\ host' = HostNext(host)
    /\ buf' = [buf EXCEPT ![i] = b]
    /\ i' = i + 1
    /\ pc' = IF i' < count THEN "pm_data" ELSE "pm_eoc"
    /\ fr' = Arg(b)
    /\ ov' = OvNext(ov, FALSE, FALSE)
    /\ UNCHANGED << c, address, count, val, flash, hw, gate, gs, led, out, log,
                    budget, rt >>

ProgMultiEoc(b) ==
    /\ pc = "pm_eoc"
    /\ host' = HostNext(host)
    /\ pc' = "wait"
    /\ led' = TRUE
    /\ IF ~EocProgMulti(b)
       THEN /\ UNCHANGED << address, i, flash, out, log >>
            /\ fr' = End(b, "bad")
            /\ ov' = OvNext(ov, FALSE, FALSE)
       ELSE LET r == ProgLoop(flash, address, 0, count, buf, << >>)
            IN  /\ flash' = r.flash
                /\ address' = r.address
                /\ i' = r.i
                /\ log' = r.log
                /\ out' = sync_response(<< >>)
                /\ fr' = End(b, "ok")
                /\ ov' = OvNext(ov, 0 < count, TRUE)
    /\ rt' = RtNext(rt, fr.op, fr'.args)
    /\ UNCHANGED << c, count, val, buf, hw, gate, gs, budget >>

(***************************************************************************)
(* Lines 182-190: READ_MULTI.                                              *)
(***************************************************************************)
ReadMultiCount(b) ==
    /\ pc = "rm_count"
    /\ host' = HostNext(host)
    /\ count' = b
    /\ pc' = "rm_eoc"
    /\ fr' = Arg(b)
    /\ ov' = OvNext(ov, FALSE, FALSE)
    /\ UNCHANGED << c, address, i, val, buf, flash, hw, gate, gs, led, out, log,
                    budget, rt >>

ReadMultiEoc(b) ==
    /\ pc = "rm_eoc"
    /\ host' = HostNext(host)
    /\ pc' = "wait"
    /\ led' = TRUE
    /\ IF ~EocReadMulti(b)
       THEN /\ UNCHANGED << c, address, i, out, log >>
            /\ fr' = End(b, "bad")
            /\ ov' = OvNext(ov, FALSE, FALSE)
       ELSE LET r == ReadLoop(flash, address, count, c, << >>, << >>)
            IN  /\ c' = r.c
                /\ address' = r.address
                /\ i' = r.i
                /\ log' = r.log
                /\ out' = sync_response(r.out)
                /\ fr' = End(b, "ok")
                /\ ov' = OvNext(ov, FALSE, TRUE)
    /\ rt' = RtNext(rt, fr.op, fr'.args)
    /\ UNCHANGED << count, val, buf, flash, hw, gate, gs, budget >>

Next ==
    \/ \E valid \in BOOLEAN : BootGate(valid)
    \/ \E strap \in BOOLEAN : Reset(strap)
    \/ \E b \in OpBytes : GetCommand(b)
    \/ \E b \in EocBytes : CommonEocCheck(b)
    \/ \E b \in AddrBytes : LoadAddressLo(b)
    \/ \E b \in AddrBytes : LoadAddressHi(b)
    \/ \E b \in EocBytes : LoadAddressEoc(b)
    \/ \E b \in DataBytes : ProgFlashData(b)
    \/ \E b \in EocBytes : ProgFlashEoc(b)
    \/ \E b \in CountBytes : ProgMultiCount(b)
    \/ \E b \in DataBytes : ProgMultiData(b)
    \/ \E b \in EocBytes : ProgMultiEoc(b)
    \/ \E b \in CountBytes : ReadMultiCount(b)
    \/ \E b \in EocBytes : ReadMultiEoc(b)

Spec == Init /\ [][Next]_vars

(***************************************************************************)
(* The same bootloader with a host that sends only LOAD_ADDRESS,           *)
(* PROG_MULTI and READ_MULTI frames (with any arguments and terminators),  *)
(* and one frame more.                                                     *)
(***************************************************************************)
RtOpBytes == { PROTO_LOAD_ADDRESS, PROTO_PROG_MULTI, PROTO_READ_MULTI }

InitRT ==
    /\ Booted(RtFrames)
    /\ button = TRUE
    /\ rstsrc.ferror = FALSE

NextRT ==
    \/ \E valid \in BOOLEAN : BootGate(valid)
    \/ \E b \in RtOpBytes : GetCommand(b)
    \/ \E b \in AddrBytes : LoadAddressLo(b)
    \/ \E b \in AddrBytes : LoadAddressHi(b)
    \/ \E b \in EocBytes : LoadAddressEoc(b)
    \/ \E b \in CountBytes : ProgMultiCount(b)
    \/ \E b \in DataBytes : ProgMultiData(b)
    \/ \E b \in EocBytes : ProgMultiEoc(b)
    \/ \E b \in CountBytes : ReadMultiCount(b)
    \/ \E b \in EocBytes : ReadMultiEoc(b)

SpecRT == InitRT /\ [][NextRT]_vars

(***************************************************************************)
(* The same bootloader with a host that, at any moment the bootloader is   *)
(* in the command loop (between two commands or in the middle of one),     *)
(* gives up what it was sending and from then on sends GET_SYNC,           *)
(* END_OF_COMMAND, GET_SYNC, END_OF_COMMAND, ... without end.  cin() blocks *)
(* until a byte is there (lines 120-190), and that host always has one     *)
(* more to send: the steps of the resynchronisation are taken (WF).        *)
(***************************************************************************)
LoopPcs ==
    { "wait", "eoc", "la_lo", "la_hi", "la_eoc", "pf_data", "pf_eoc",
      "pm_count", "pm_data", "pm_eoc", "rm_count", "rm_eoc" }

InitSync == Booted(SyncFrames)

Resync ==
    /\ host.mode = "any"
    /\ pc \in LoopPcs
    /\ host' = [mode |-> "sync", from |-> pc, sent |-> 0]
    /\ UNCHANGED << pc, prog, flash, hw, led, out, log, fr, budget, ov, rt,
                    gs, gate >>

NextSync ==
    \/ \E valid \in BOOLEAN : BootGate(valid)
    \/ \E strap \in BOOLEAN : Reset(strap)
    \/ Resync
    \/ \E b \in HostBytes(OpBytes) : GetCommand(b)
    \/ \E b \in HostBytes(EocBytes) : CommonEocCheck(b)
    \/ \E b \in HostBytes(AddrBytes) : LoadAddressLo(b)
    \/ \E b \in HostBytes(AddrBytes) : LoadAddressHi(b)
    \/ \E b \in HostBytes(EocBytes) : LoadAddressEoc(b)
    \/ \E b \in HostBytes(DataBytes) : ProgFlashData(b)
    \/ \E b \in HostBytes(EocBytes) : ProgFlashEoc(b)
    \/ \E b \in HostBytes(CountBytes) : ProgMultiCount(b)
    \/ \E b \in HostBytes(DataBytes) : ProgMultiData(b)
    \/ \E b \in HostBytes(EocBytes) : ProgMultiEoc(b)
    \/ \E b \in HostBytes(CountBytes) : ReadMultiCount(b)
    \/ \E b \in HostBytes(EocBytes) : ReadMultiEoc(b)

SyncStep == host.mode # "any" /\ NextSync

SpecSync == InitSync /\ [][NextSync]_vars /\ WF_vars(SyncStep)

(***************************************************************************)
(* What the claims are stated with.                                        *)
(***************************************************************************)
Capacity == PROTO_PROG_MULTI_MAX
Ack == << PROTO_INSYNC, PROTO_OK >>

\* the frame in fr is whole and ends with the terminator
Framed == WellFramed(fr.op, fr.args)
\* the frame in fr has its terminator byte, and it is not END_OF_COMMAND
BadTerminator ==
    /\ TermIdx(fr.op, fr.args) > 0
    /\ Len(fr.args) = TermIdx(fr.op, fr.args)
    /\ fr.args[Len(fr.args)] # PROTO_EOC
\* the flash driver was asked to read or to program a byte
FlashByteCalls == { k \in 1 .. Len(log) : log[k].op \in {"r", "w"} }
\* flashes f and g hold the same bytes at every address outside S
SameOutside(f, g, S) ==
    /\ f.appErased = g.appErased
    /\ f.scrErased = g.scrErased
    /\ \A a \in (DOMAIN f.ov \cup DOMAIN g.ov) \ S :
          flash_read_byte(f, a) = flash_read_byte(g, a)

(***************************************************************************)
(* C1: a PROG_MULTI frame whose count fits the buffer and whose terminator *)
(* byte is not END_OF_COMMAND programs no flash byte, leaves the address   *)
(* cursor where it was and sends no byte; and as long as the terminator    *)
(* of a PROG_MULTI frame has not been received and found valid, nothing    *)
(* has been programmed.                                                    *)
(***************************************************************************)
C1_ProgMultiProgramsNothingUnlessTerminated ==
    ( /\ fr.op = PROTO_PROG_MULTI
      /\ (fr.args = << >> \/ fr.args[1] <= Capacity)
      /\ ~Framed )
    => /\ log = << >>
       /\ out = << >>
       /\ address = fr.A
       /\ flash = fr.F

\* a full buffer of data was received, then a byte that is not the
\* terminator, with the cursor moved and the flash programmed before
C1_Witness ==
    /\ pc = "wait"
    /\ fr.op = PROTO_PROG_MULTI
    /\ Len(fr.args) = Capacity + 2
    /\ fr.args[1] = Capacity
    /\ BadTerminator
    /\ fr.A # 0
    /\ DOMAIN fr.F.ov # {}

(***************************************************************************)
(* C2: once the host has sent the whole of a PROG_MULTI frame whose count  *)
(* byte exceeds the buffer capacity (the count byte, count data bytes, the *)
(* terminator), no flash byte has been programmed, no region erased and no *)
(* acknowledgement sent.                                                   *)
(***************************************************************************)
C2_OversizedProgMultiFrameIsInert ==
    ov.st = "fed" => ~ov.touched /\ ~ov.acked

(***************************************************************************)
(* C3, as claimed: no flash byte is programmed or read for a PROG_FLASH,   *)
(* READ_FLASH, PROG_MULTI or READ_MULTI frame whose terminator is not      *)
(* (yet) valid or whose count byte exceeds the buffer capacity.            *)
(***************************************************************************)
FlashOps ==
    { PROTO_PROG_FLASH, PROTO_READ_FLASH, PROTO_PROG_MULTI, PROTO_READ_MULTI }

CountExceedsCapacity ==
    /\ fr.op \in { PROTO_PROG_MULTI, PROTO_READ_MULTI }
    /\ fr.args # << >>
    /\ fr.args[1] > Capacity

C3_AsClaimed ==
    (fr.op \in FlashOps /\ (~Framed \/ CountExceedsCapacity))
    => FlashByteCalls = {}

(***************************************************************************)
(* C3, amended: no flash byte is programmed or read for a PROG_FLASH,      *)
(* READ_FLASH, PROG_MULTI or READ_MULTI frame whose terminator is not      *)
(* (yet) valid, nor for a PROG_MULTI frame whose count byte exceeds the    *)
(* buffer capacity; a READ_MULTI frame with a valid terminator is read     *)
(* from flash whatever its count byte.                                     *)
(***************************************************************************)
C3_NoFlashByteForUnterminatedFrame ==
    /\ (fr.op \in FlashOps /\ ~Framed) => (FlashByteCalls = {} /\ flash = fr.F)
    /\ (fr.op = PROTO_PROG_MULTI /\ CountExceedsCapacity)
          => (log = << >> /\ flash = fr.F)
    /\ (fr.op = PROTO_READ_MULTI /\ Framed)
          => Cardinality(FlashByteCalls) = fr.args[1]

\* a PROG_FLASH frame ended by a byte that is not the terminator
C3_Witness ==
    /\ pc = "wait"
    /\ fr.op = PROTO_PROG_FLASH
    /\ BadTerminator
    /\ fr.A # 0

(***************************************************************************)
(* C4: a PROG_MULTI frame with count <= capacity and a valid terminator,   *)
(* read with the cursor at A, makes exactly count flash writes, the k-th   *)
(* to address A+k (16-bit cursor arithmetic) with the k-th data byte of    *)
(* this frame, in increasing order; the cursor ends at A+count, the flash  *)
(* holds the data there and is otherwise as before, and exactly IN_SYNC,   *)
(* OK is sent.                                                             *)
(***************************************************************************)
C4_ProgMultiProgramsTheFrame ==
    (fr.op = PROTO_PROG_MULTI /\ Framed /\ fr.args[1] <= Capacity)
    => LET n == fr.args[1]
           cell(k) == Add16(fr.A, k - 1)
       IN  /\ pc = "wait"
           /\ log = [k \in 1 .. n |-> Call("w", cell(k), fr.args[k + 1])]
           /\ \A k \in 1 .. n : flash_read_byte(flash, cell(k)) = fr.args[k + 1]
           /\ SameOutside(flash, fr.F, { cell(k) : k \in 1 .. n })
           /\ address = Add16(fr.A, n)
           /\ out = Ack

\* a full buffer of two different bytes, programmed over a stale buffer
C4_Witness ==
    /\ pc = "wait"
    /\ fr.op = PROTO_PROG_MULTI
    /\ Framed
    /\ fr.args[1] = Capacity
    /\ fr.args[2] # fr.args[3]
    /\ fr.A # 0
    /\ DOMAIN fr.F.ov # {}

(***************************************************************************)
(* C5: a READ_MULTI frame with count byte n and a valid terminator, read   *)
(* with the cursor at A, sends exactly n data bytes, the k-th the flash    *)
(* driver's byte at A+k (16-bit cursor arithmetic) in increasing address   *)
(* order, then IN_SYNC, OK; it programs and erases nothing and leaves the  *)
(* cursor at A+n.                                                          *)
(***************************************************************************)
C5_ReadMultiSendsTheFlash ==
    (fr.op = PROTO_READ_MULTI /\ Framed)
    => LET n == fr.args[1]
           cell(k) == Add16(fr.A, k - 1)
           byte(k) == flash_read_byte(fr.F, cell(k))
       IN  /\ pc = "wait"
           /\ out = [k \in 1 .. n |-> byte(k)] \o Ack
           /\ log = [k \in 1 .. n |-> Call("r", cell(k), byte(k))]
           /\ flash = fr.F
           /\ address = Add16(fr.A, n)

\* more bytes than the buffer holds, read from cells programmed before
C5_Witness ==
    /\ pc = "wait"
    /\ fr.op = PROTO_READ_MULTI
    /\ Framed
    /\ fr.args[1] = Capacity + 1
    /\ fr.A \in DOMAIN fr.F.ov
    /\ out[1] # out[2]

(***************************************************************************)
(* C6: LOAD_ADDRESS(A), PROG_MULTI(n bytes, n <= capacity),                *)
(* LOAD_ADDRESS(A), READ_MULTI(n), each with a valid terminator and one    *)
(* right after the other: READ_MULTI sends exactly the n bytes that were   *)
(* programmed, in the same order (and then the acknowledgement).           *)
(***************************************************************************)
C6_ProgMultiReadMultiRoundTrip ==
    rt.st = 4 => (pc = "wait" /\ out = rt.data \o Ack)

\* a full buffer of two different bytes came back, from where the cursor
\* wraps
C6_Witness ==
    /\ rt.st = 4
    /\ Len(rt.data) = Capacity
    /\ rt.data[1] # rt.data[2]
    /\ rt.A = 65535

(***************************************************************************)
(* C7: a LOAD_ADDRESS frame with argument bytes (lo, hi) and a valid       *)
(* terminator sets the cursor to lo | (hi << 8) = lo + 256 * hi and sends  *)
(* IN_SYNC, OK; a valid READ_FLASH frame right after it sends the flash    *)
(* driver's byte at that address, then IN_SYNC, OK, and leaves the cursor  *)
(* one higher.                                                             *)
(***************************************************************************)
C7_LoadAddressSetsTheCursor ==
    /\ (fr.op = PROTO_LOAD_ADDRESS /\ Framed)
          => /\ pc = "wait"
             /\ address = fr.args[1] + 256 * fr.args[2]
             /\ out = Ack
    /\ rt.st = 5
          => /\ pc = "wait"
             /\ fr.op = PROTO_READ_FLASH
             /\ fr.A = rt.A
             /\ log = << Call("r", rt.A, flash_read_byte(fr.F, rt.A)) >>
             /\ out = << flash_read_byte(fr.F, rt.A) >> \o Ack
             /\ address = Add16(rt.A, 1)

\* READ_FLASH after LOAD_ADDRESS(lo = 0, hi = 255)
C7_Witness ==
    /\ rt.st = 5
    /\ rt.A = 65280

(***************************************************************************)
(* C8: for each of the nine opcodes that validate a terminator, a frame    *)
(* whose terminator byte is not END_OF_COMMAND makes the engine send no    *)
(* byte at all and wait for the next opcode byte.                          *)
(***************************************************************************)
C8_BadTerminatorIsSilent ==
    (fr.op \in Opcodes \ { PROTO_REBOOT } /\ BadTerminator)
    => (out = << >> /\ pc = "wait")

\* a GET_DEVICE frame ended by a byte that is not the terminator
C8_Witness ==
    /\ fr.op = PROTO_GET_DEVICE
    /\ BadTerminator
    /\ pc = "wait"

(***************************************************************************)
(* C9: a byte that is none of the ten opcodes (the END_OF_COMMAND value    *)
(* among them), received while waiting for an opcode, makes the engine     *)
(* send nothing, leave the cursor and the flash unchanged, read no further *)
(* byte for it and wait for an opcode again.                               *)
(***************************************************************************)
C9_UnknownOpcodeIsDropped ==
    (fr.op # -1 /\ fr.op \notin Opcodes)
    => /\ pc = "wait"
       /\ fr.args = << >>
       /\ out = << >>
       /\ log = << >>
       /\ address = fr.A
       /\ flash = fr.F

\* the terminator value as a command byte, with the cursor moved before
C9_Witness ==
    /\ fr.op = PROTO_EOC
    /\ pc = "wait"
    /\ fr.A # 0

(***************************************************************************)
(* C10: a well framed GET_SYNC, CHIP_ERASE, PARAM_ERASE, LOAD_ADDRESS or   *)
(* PROG_FLASH command makes the engine send exactly IN_SYNC then OK, and   *)
(* no other byte between its opcode and the next one.                      *)
(***************************************************************************)
AckOnlyOps ==
    { PROTO_GET_SYNC, PROTO_CHIP_ERASE, PROTO_PARAM_ERASE,
      PROTO_LOAD_ADDRESS, PROTO_PROG_FLASH }

C10_PlainCommandsSendExactlyTheAck ==
    fr.op \in AckOnlyOps
    => IF Framed THEN out = Ack /\ pc = "wait" ELSE out = << >>

\* PARAM_ERASE, acknowledged
C10_Witness ==
    /\ fr.op = PROTO_PARAM_ERASE
    /\ Framed
    /\ pc = "wait"

(***************************************************************************)
(* C11: a GET_DEVICE frame with a valid terminator makes the engine send   *)
(* exactly the board identity, the frequency, IN_SYNC, OK, in that order,  *)
(* and leaves the cursor and the flash unchanged.                          *)
(***************************************************************************)
C11_GetDeviceSendsTheBoardInfo ==
    (fr.op = PROTO_GET_DEVICE /\ Framed)
    => /\ pc = "wait"
       /\ out = << BOARD_ID, board_frequency, PROTO_INSYNC, PROTO_OK >>
       /\ log = << >>
       /\ address = fr.A
       /\ flash = fr.F

\* GET_DEVICE answered, with the cursor moved and the flash programmed before
C11_Witness ==
    /\ pc = "wait"
    /\ fr.op = PROTO_GET_DEVICE
    /\ Framed
    /\ fr.A # 0
    /\ DOMAIN fr.F.ov # {}

(***************************************************************************)
(* C12: GET_SYNC is idempotent: each of any number of well framed GET_SYNC *)
(* frames sent one right after the other is answered with exactly          *)
(* IN_SYNC, OK, and during and after the run the cursor and every flash    *)
(* byte are what they were before the run.                                 *)
(***************************************************************************)
C12_GetSyncRunChangesNothing ==
    gs.n > 0
    => /\ address = gs.A
       /\ flash = gs.F
       /\ log = << >>
       /\ pc \in {"wait", "eoc"}
       /\ pc = "wait" => out = Ack

\* two GET_SYNC frames in a row answered, the cursor having been moved before
C12_Witness ==
    /\ gs.n = 2
    /\ pc = "wait"
    /\ out = Ack
    /\ gs.A # 0
    /\ address = gs.A

(***************************************************************************)
(* C13: the boot decision hands control to the application if and only if  *)
(* the flash error bit of the reset cause is clear, flash_app_valid()      *)
(* answered true and the button is not held; in the seven other cases the  *)
(* command loop is entered, so an image flash_app_valid() rejects is never *)
(* run.                                                                    *)
(***************************************************************************)
C13_BootsTheApplicationIffAllThreeHold ==
    pc # "boot"
    => /\ gate.n > 0
       /\ (pc = "app") <=> (~rstsrc.ferror /\ gate.valid /\ ~button)
       /\ pc = "app" => gate.valid

\* a valid image, no flash error, and the button held: the command loop
C13_Witness ==
    /\ pc = "wait"
    /\ gate.n > 0
    /\ gate.valid
    /\ ~rstsrc.ferror
    /\ button

(***************************************************************************)
(* C14: host recovery.  From every state of the command loop, between two  *)
(* commands or in the middle of one, if the host from then on sends only   *)
(* GET_SYNC, END_OF_COMMAND again and again, the bootloader eventually     *)
(* answers one of these GET_SYNC frames with IN_SYNC, OK and then waits    *)
(* for an opcode exactly when the host sends its next GET_SYNC.            *)
(***************************************************************************)
Synced ==
    /\ host.mode = "sync"
    /\ host.sent = 2
    /\ pc = "wait"
    /\ fr.op = PROTO_GET_SYNC
    /\ Framed
    /\ out = Ack

C14_HostRecovers == (host.mode # "any") ~> Synced

\* resynchronised after the host gave up in the middle of the data bytes of
\* a PROG_MULTI
C14_Witness ==
    /\ host.from = "pm_data"
    /\ Synced

(***************************************************************************)
(* C15: REBOOT reads a terminator byte after the opcode and tests it       *)
(* against END_OF_COMMAND in its handler: the software reset is asked for  *)
(* only once END_OF_COMMAND has been read after the REBOOT opcode.         *)
(***************************************************************************)
C15_RebootWaitsForItsTerminator ==
    (fr.op = PROTO_REBOOT /\ pc = "reset")
    => (fr.args = << PROTO_EOC >> /\ rstsrc.swrsf)

(***************************************************************************)
(* C16: CHIP_ERASE and PARAM_ERASE have their terminator read and tested   *)
(* right after the opcode byte, before the handler: with another byte      *)
(* than END_OF_COMMAND nothing is erased, with END_OF_COMMAND the region   *)
(* named by the opcode is erased once and the other region is not.         *)
(***************************************************************************)
C16_EraseOnlyTheNamedRegionOnceTerminated ==
    /\ (fr.op \in {PROTO_CHIP_ERASE, PROTO_PARAM_ERASE} /\ ~Framed)
       => (log = << >> /\ flash = fr.F)
    /\ (fr.op = PROTO_CHIP_ERASE /\ Framed)
       => /\ log = << Call("ea", 0, 0) >>
          /\ flash = flash_erase_app(fr.F)
          /\ flash.scrErased = fr.F.scrErased
    /\ (fr.op = PROTO_PARAM_ERASE /\ Framed)
       => /\ log = << Call("es", 0, 0) >>
          /\ flash = flash_erase_scratch(fr.F)
          /\ flash.appErased = fr.F.appErased

\* CHIP_ERASE done on a flash whose scratch region was not erased, after an
\* application byte had been programmed
C16_Witness ==
    /\ fr.op = PROTO_CHIP_ERASE
    /\ Framed
    /\ pc = "wait"
    /\ flash.appErased
    /\ ~flash.scrErased
    /\ DOMAIN fr.F.ov # {}

(***************************************************************************)
(* C17: the cursor is 0 when the command loop is entered, and from then on *)
(* a step changes it in two ways only: LOAD_ADDRESS sets it to the value   *)
(* of its two argument bytes, and a PROG_FLASH, READ_FLASH, PROG_MULTI or  *)
(* READ_MULTI that succeeds adds to it exactly the number of flash bytes   *)
(* it transferred.  GET_SYNC, GET_DEVICE, CHIP_ERASE, PARAM_ERASE, REBOOT  *)
(* and unknown opcodes leave it as it is.                                  *)
(***************************************************************************)
Transfers == { PROTO_PROG_FLASH, PROTO_READ_FLASH, PROTO_PROG_MULTI,
               PROTO_READ_MULTI }

CursorSetByLoadAddress ==
    /\ fr'.op = PROTO_LOAD_ADDRESS
    /\ Len(fr'.args) = 2
    /\ address' = fr'.args[1] + 256 * fr'.args[2]

CursorAdvancedByTransfer ==
    /\ fr'.op \in Transfers
    /\ WellFramed(fr'.op, fr'.args)
    /\ pc' = "wait"
    /\ Len(out') >= 2
    /\ SubSeq(out', Len(out') - 1, Len(out')) = Ack
    /\ LET n == IF fr'.op \in {PROTO_PROG_FLASH, PROTO_READ_FLASH}
                THEN 1
                ELSE fr'.args[1]
       IN  /\ Len(log') = n
           /\ \A k \in 1 .. n : log'[k].op \in {"r", "w"}
           /\ address' = (address + n) % 65536

CursorStep ==
    /\ (pc = "boot" /\ pc' = "wait") => address' = 0
    /\ (pc # "boot" /\ address' # address)
       => (CursorSetByLoadAddress \/ CursorAdvancedByTransfer)

C17_CursorChangesOnlyByLoadAddressAndTransfers == [][CursorStep]_vars

\* a READ_MULTI of at least one byte has advanced a cursor that a
\* LOAD_ADDRESS had set
C17_Witness ==
    /\ fr.op = PROTO_READ_MULTI
    /\ Framed
    /\ pc = "wait"
    /\ fr.args[1] > 0
    /\ fr.A = 255
    /\ address = fr.A + fr.args[1]

(***************************************************************************)
(* C18: a LOAD_ADDRESS frame whose terminator is not END_OF_COMMAND is     *)
(* discarded without effect: the cursor after the frame is the cursor      *)
(* before it.                                                              *)
(***************************************************************************)
C18_LoadAddressWithBadTerminatorKeepsTheCursor ==
    (fr.op = PROTO_LOAD_ADDRESS /\ BadTerminator) => address = fr.A

(***************************************************************************)
(* C19: the cursor is a 16-bit value that wraps modulo 2^16: a PROG_FLASH  *)
(* or READ_FLASH at cursor A accesses A and leaves (A + 1) mod 2^16 (0     *)
(* after 0xFFFF), a PROG_MULTI or READ_MULTI of n bytes at A accesses      *)
(* (A + k) mod 2^16 for k = 0..n-1 and leaves (A + n) mod 2^16, and the    *)
(* bootloader is back waiting for an opcode, the frame acknowledged.       *)
(***************************************************************************)
TransferLength ==
    IF fr.op \in {PROTO_PROG_FLASH, PROTO_READ_FLASH} THEN 1 ELSE fr.args[1]

C19_CursorWrapsModulo65536 ==
    /\ address \in 0 .. 65535
    /\ (fr.op \in Transfers /\ Framed
           /\ ~(fr.op = PROTO_PROG_MULTI /\ CountExceedsCapacity))
       => /\ pc = "wait"
          /\ Len(log) = TransferLength
          /\ \A k \in 1 .. TransferLength :
                /\ log[k].op \in {"r", "w"}
                /\ log[k].a = (fr.A + k - 1) % 65536
          /\ address = (fr.A + TransferLength) % 65536
          /\ Len(out) >= 2
          /\ SubSeq(out, Len(out) - 1, Len(out)) = Ack

\* a PROG_MULTI of two bytes at 0xFFFF: the second byte goes to 0, the cursor
\* is left at 1
C19_Witness ==
    /\ fr.op = PROTO_PROG_MULTI
    /\ Framed
    /\ pc = "wait"
    /\ fr.A = 65535
    /\ fr.args[1] = 2
    /\ Len(log) = 2
    /\ log[2].a = 0
    /\ address = 1

(***************************************************************************)
(* C20: the frequency byte and the bootloader version are written to the   *)
(* two registers exactly when the boot decision hands control to the       *)
(* application, and they are written by the time it does.  When one of the *)
(* three conditions fails the registers are not written, then or later,    *)
(* the decision sends nothing on the serial link, and the command loop is  *)
(* entered with the cursor at 0.  The decision is taken once per reset,    *)
(* never again once the command loop is entered.                           *)
(***************************************************************************)
Stashed == [freq |-> board_frequency, ver |-> BL_VERSION]

GateStep ==
    /\ pc = "boot"
       => /\ gate.n = 0
          /\ gate'.n = 1
          /\ out' = out
          /\ pc' \in {"app", "wait"}
          /\ (pc' = "app") <=> (~rstsrc.ferror /\ gate'.valid /\ ~button)
          /\ pc' = "app" => regs' = Stashed
          /\ pc' = "wait" => (regs' = regs /\ regs' # Stashed /\ address' = 0)
    /\ pc # "boot"
       => /\ regs' = regs
          /\ gate' = gate \/ (pc = "reset" /\ pc' = "boot" /\ gate'.n = 0)
    /\ pc = "app" => (pc' = "app" /\ regs = Stashed)

C20_RegistersWrittenExactlyWhenBooting == [][GateStep]_vars

\* the application booted with both registers written, by the decision taken
\* after a REBOOT
C20_Witness ==
    /\ pc = "app"
    /\ regs = Stashed
    /\ gate.n = 1
    /\ rstsrc.swrsf
    /\ fr.op = PROTO_REBOOT
====
